---- MODULE Spec2Model ----
(***************************************************************************)
(* A model of conan-multi-build.py: the hook that makes one Conan recipe   *)
(* build, package and test once per architecture of settings.os.fat_arch   *)
(* and merges the per-architecture packages into one fat package.          *)
(*                                                                         *)
(* Paths are sequences of path components (os.path.join appends            *)
(* components, split(os.path.sep) is the sequence itself).  A string that  *)
(* the code splits is a sequence of tokens, ";" being the delimiter.       *)
(* Objects that the code copies or shares (settings, folders) live in      *)
(* heaps indexed by object id, so that aliasing is visible.                *)
(***************************************************************************)
EXTENDS Integers, Sequences, FiniteSets, TLC

VARIABLES
    self_,        \* the host's build context (the patched conanfile)
    settingsObj,  \* heap of settings objects; self_.settings, clone.settings index it
    foldersObj,   \* heap of folders objects; self_.folders, clone.folders index it
    clones,       \* the clones conanfile_copy made during the current host step
    fs,           \* the package directory: absolute path -> entry
    buildDir,     \* the names present in build_folder itself
    buildArch,    \* arch -> the staged subtree build_folder/conan_archs/<arch>
    pc,           \* the position of the running step ("idle" between host calls)
    frame,        \* the locals of the running multi_* step (archs, the folders)
    idx,          \* the index of the loop of the running multi_* step
    calls,        \* the original steps invoked during the current host step
    lipo,         \* the combining-tool invocations of the current host step
    last,         \* the handler that returned last and how it ended
    done          \* the steps the host has already invoked on this context

vars == <<self_, settingsObj, foldersObj, clones, fs, buildDir, buildArch,
          pc, frame, idx, calls, lipo, last, done>>

---------------------------------------------------------------------------
(* Bounds of the model *)

\* the longest architecture list a configuration requests
MaxArchs == 3

---------------------------------------------------------------------------
(* Program constants and the universe of names *)

\* the architectures of the lists drawn, in the order the lists name them
ArchNames == <<"x86_64", "armv8", "armv7", "arm64_32">>
ArchSet == {ArchNames[k] : k \in 1..Len(ArchNames)}

_arch_folder == "conan_archs"
_binary_exts == {".a", ".dylib"}
_regular_exts == {".h", ".hpp", ".hxx", ".c", ".cc", ".cxx", ".cpp", ".m", ".mm",
                  ".txt", ".md", ".html", ".jpg", ".png"}

\* the step implementations a context attribute can denote
OrigBuild == "build"
OrigPackage == "package"
OrigTest == "test"
HookMultiBuild == "hook.multi_build"
HookMultiPackage == "hook.multi_package"
HookMultiTest == "hook.multi_test"
HookSafePackage == "hook.safe_package"
RecipeMultiBuild == "recipe.multi_build"
RecipeMultiPackage == "recipe.multi_package"
Unset == "unset"

\* the folders of the host's context
BuildFolder == <<"build">>
InstallFolder == <<"install">>
PackageFolder == <<"package">>

---------------------------------------------------------------------------
(* Strings that are split: a sequence of tokens, ";" the delimiter *)

RECURSIVE JoinSemi(_)
JoinSemi(list) ==
    IF Len(list) = 0 THEN <<>>
    ELSE IF Len(list) = 1 THEN <<list[1]>>
    ELSE <<list[1], ";">> \o JoinSemi(Tail(list))

\* the text of one field (every field drawn here is one token or empty)
Text(field) == IF field = <<>> THEN "" ELSE field[1]

RECURSIVE SplitSemi(_)
SplitSemi(s) ==
    IF \A k \in 1..Len(s) : s[k] # ";" THEN <<Text(s)>>
    ELSE LET k == CHOOSE j \in 1..Len(s) :
                      s[j] = ";" /\ \A m \in 1..(j - 1) : s[m] # ";"
         IN <<Text(SubSeq(s, 1, k - 1))>> \o SplitSemi(SubSeq(s, k + 1, Len(s)))

\* a setting's value: absent (the sub-setting does not exist), None, or a string
AbsentVal == [kind |-> "absent", val |-> <<>>]
NoneVal == [kind |-> "none", val |-> <<>>]
StrVal(tokens) == [kind |-> "str", val |-> tokens]

\* str(value)
Str(v) == IF v.kind = "none" THEN <<"None">> ELSE v.val

---------------------------------------------------------------------------
(* supported_os, get_archs *)

is_apple_os(os_) == os_ \in {"Macos", "iOS", "watchOS", "tvOS"}

supported_os(os_) == is_apple_os(os_)

\* get_archs: the list, or None when the attribute lookup raised AttributeError
get_archs(st) ==
    IF st.fat_arch.kind = "absent"
    THEN [kind |-> "None", list |-> <<>>]
    ELSE [kind |-> "list", list |-> SplitSemi(Str(st.fat_arch))]

---------------------------------------------------------------------------
(* The eligibility gate: multi_arch_generators, supports_multi_arch,       *)
(* patch_conanfile                                                         *)

multi_arch_generators(c) ==
    IF c.s_multi_arch_generators # {Unset} THEN c.s_multi_arch_generators
    ELSE IF c.cmake_generator = "Xcode" THEN {"cmake"}
    ELSE {"cmake"} \ {"cmake"}

supports_multi_arch(c) ==
    IF c.s_multi_arch # Unset THEN c.s_multi_arch = "True"
    ELSE IF c.multi_arch # Unset THEN c.multi_arch = "True"
    ELSE IF c.generators \cap multi_arch_generators(c) # {} THEN TRUE
    ELSE c.multi_build # Unset /\ c.multi_package # Unset

\* lines 329-331: only the package step is redirected
InstallSafePackage(c) ==
    [c EXCEPT !._package1 = c.package,
              !.multi_package = HookSafePackage,
              !.package = HookSafePackage]

\* lines 334-351: the three steps are saved and redirected
InstallMulti(c) ==
    LET mb == IF c.multi_build # Unset THEN c.multi_build ELSE HookMultiBuild
        mp == IF c.multi_package # Unset THEN c.multi_package ELSE HookMultiPackage
        mt == IF c.multi_test # Unset THEN c.multi_test ELSE HookMultiTest
    IN [c EXCEPT !._build1 = c.build,
                 !._package1 = c.package,
                 !._test1 = c.test,
                 !.multi_build = mb, !.build = mb,
                 !.multi_package = mp, !.package = mp,
                 !.multi_test = mt, !.test = mt]

\* TooFewArchs with the comparison off by one: a list of one passes the gate
TooFewArchs_Empty(list) == Len(list) < 1

\* the test of line 321: nothing to multiply
TooFewArchs(list) == Len(list) <= 1

\* AlreadyPatched without the marker test: every call patches again
AlreadyPatched_Never(c) == FALSE

\* the "already patched" test of line 325
AlreadyPatched(c) == c._package1 # Unset

\* patch_conanfile: the context it leaves and the error it raises
patch_conanfile(c, st) ==
    IF c.header_only = "True" THEN [ctx |-> c, err |-> "none"]
    ELSE IF ~supported_os(st.os) THEN [ctx |-> c, err |-> "none"]
    ELSE IF st.arch = Unset THEN [ctx |-> c, err |-> "none"]
    ELSE IF get_archs(st).kind = "None" THEN [ctx |-> c, err |-> "TypeError"]
    ELSE IF TooFewArchs(get_archs(st).list) THEN [ctx |-> c, err |-> "none"]
    ELSE IF AlreadyPatched(c) THEN [ctx |-> c, err |-> "none"]
    ELSE IF supports_multi_arch(c) THEN [ctx |-> InstallSafePackage(c), err |-> "none"]
    ELSE [ctx |-> InstallMulti(c), err |-> "none"]

---------------------------------------------------------------------------
(* The package directory.  An entry is absent, a directory or a file; a    *)
(* file carries the architectures whose code it holds (data), its leading  *)
(* bytes, and whether the process may open it for reading.                 *)

NoEntry == [kind |-> "none", data |-> <<>>, bytes |-> <<>>, readable |-> TRUE]
DirEntry == [kind |-> "dir", data |-> <<>>, bytes |-> <<>>, readable |-> TRUE]
FileEntry(data, bytes) ==
    [kind |-> "file", data |-> data, bytes |-> bytes, readable |-> TRUE]
\* the entry with its read permission taken away
Unreadable(entry) == [entry EXCEPT !.readable = FALSE]
\* a directory carrying file flags that the process may not set on a copy
FlaggedDir == [DirEntry EXCEPT !.data = <<"flags">>]
\* a symbolic link; data is its text, a path relative to the link's directory
LinkEntry(linkto) ==
    [kind |-> "link", data |-> linkto, bytes |-> <<>>, readable |-> TRUE]

MachOThin == <<207, 250, 237, 254>>
MachOFat == <<202, 254, 186, 190>>
ArMagic == <<33, 60, 97, 114, 99, 104, 62, 10>>
ScriptBytes == <<35, 33, 47, 98>>
HeaderBytes == <<35, 112, 114, 97>>

\* the paths a package tree can hold, relative to its root
RelPaths == {<<"lib">>, <<"lib", "libfoo.a">>, <<"lib", "foo.h">>, <<"tool">>}
RelFiles == {<<"lib", "libfoo.a">>, <<"lib", "foo.h">>, <<"tool">>}
\* the order in which os.listdir yields names
NameOrder == <<"lib", "libfoo.a", "foo.h", "tool">>

ScratchRoot(folder) == folder \o <<_arch_folder>>
ScratchDir(folder, arch) == folder \o <<_arch_folder, arch>>

FsPaths ==
    {PackageFolder} \cup {PackageFolder \o p : p \in RelPaths}
    \cup {ScratchRoot(PackageFolder)}
    \cup {ScratchDir(PackageFolder, a) : a \in ArchSet}
    \cup {ScratchDir(PackageFolder, a) \o p : a \in ArchSet, p \in RelPaths}

IsPrefix(p, q) == Len(p) <= Len(q) /\ SubSeq(q, 1, Len(p)) = p

Parent(p) == SubSeq(p, 1, Len(p) - 1)

\* os.path.lexists, os.path.islink, os.readlink: the entry itself
lexists(f, p) == p \in DOMAIN f /\ f[p].kind # "none"
islink(f, p) == p \in DOMAIN f /\ f[p].kind = "link"
readlink(f, p) == f[p].data

\* the path a system call on p acts on: the target of p when p is a link
Deref(f, p) == IF islink(f, p) THEN Parent(p) \o readlink(f, p) ELSE p

\* os.path.exists, os.path.isfile, os.path.isdir: they follow a link, and a
\* link whose target is absent is neither
exists(f, p) ==
    Deref(f, p) \in DOMAIN f /\ f[Deref(f, p)].kind \in {"file", "dir"}
isfile(f, p) == Deref(f, p) \in DOMAIN f /\ f[Deref(f, p)].kind = "file"
isdir(f, p) == Deref(f, p) \in DOMAIN f /\ f[Deref(f, p)].kind = "dir"

\* os.listdir(d): the names of the entries of d
listdir(f, d) ==
    LET Present(n) == lexists(f, d \o <<n>>)
    IN SelectSeq(NameOrder, Present)

\* rmtree that deletes nothing
rmtree_Keep(f, d) == f

\* rmtree that removes the directory entry and leaves what is below it
rmtree_Shallow(f, d) == [f EXCEPT ![d] = NoEntry]

\* shutil.rmtree(d)
rmtree(f, d) == [p \in DOMAIN f |-> IF IsPrefix(d, p) THEN NoEntry ELSE f[p]]

\* os.path.splitext(name)[1], on the names of the universe
splitext(name) ==
    CASE name = "libfoo.a" -> ".a"
      [] name = "foo.h" -> ".h"
      [] OTHER -> ""

\* f.read(4)
Read4(bytes) == SubSeq(bytes, 1, IF Len(bytes) < 4 THEN Len(bytes) ELSE 4)

\* open(filename, "rb"): the exception it raises, "none" when it opens
OpenRb(f, filename) ==
    IF ~isfile(f, filename) THEN "FileNotFoundError"
    ELSE IF ~f[filename].readable THEN "PermissionError"
    ELSE "none"

\* is_macho_binary(filename): the value it returns
is_macho_binary(f, filename) ==
    LET ext == splitext(filename[Len(filename)])
        header == Read4(f[filename].bytes)
    IN IF ext \in _binary_exts THEN TRUE
       ELSE IF ext \in _regular_exts THEN FALSE
       ELSE IF header = MachOThin THEN TRUE
       ELSE IF header = MachOFat THEN TRUE
       ELSE IF header = ArMagic THEN TRUE
       ELSE FALSE

\* is_macho_binary(filename): the exception that leaves it instead of a value,
\* "none" when it returns; nothing around the open catches
is_macho_binary_raises(f, filename) ==
    LET ext == splitext(filename[Len(filename)])
    IN IF ext \in _binary_exts THEN "none"
       ELSE IF ext \in _regular_exts THEN "none"
       ELSE OpenRb(f, filename)

\* what lipo -create -output dst arch_paths... writes: one fat file holding the
\* code of every input
LipoOutput(f, arch_paths) ==
    LET RECURSIVE Slices(_)
        Slices(ps) == IF ps = <<>> THEN <<>>
                      ELSE f[Head(ps)].data \o Slices(Tail(ps))
    IN FileEntry(Slices(arch_paths), MachOFat)

\* the state a merge threads through: the directory, the tool invocations, the
\* errors collected by the running graft_tree, the exception propagating
MergeState(f, l) == [fs |-> f, lipo |-> l, errors |-> <<>>, exc |-> "none"]

\* the per-architecture paths of line 81-82
ArchPaths(f, src, top, archs_) ==
    LET arch_dir == src[Len(top) + 1]
        subpath == SubSeq(src, Len(top) + 3, Len(src))
        IsFile(p) == isfile(f, p)
    IN SelectSeq([k \in 1..Len(archs_) |-> top \o <<arch_dir, archs_[k]>> \o subpath],
                 IsFile)

\* the test of line 83: the tool needs two inputs or more
EnoughInputs(arch_paths) == Len(arch_paths) > 1

\* shutil.copy2(src, dst) where dst is no directory: the source is opened
\* first, then the destination is written, through dst when dst is a link
copy2(acc, src, dst) ==
    LET s == Deref(acc.fs, src)
        d == Deref(acc.fs, dst)
    IN IF ~isfile(acc.fs, src) THEN [acc EXCEPT !.exc = "FileNotFoundError"]
       ELSE IF ~acc.fs[s].readable THEN [acc EXCEPT !.exc = "PermissionError"]
       ELSE IF d \notin DOMAIN acc.fs \/ ~isdir(acc.fs, Parent(d))
       THEN [acc EXCEPT !.exc = "FileNotFoundError"]
       ELSE [acc EXCEPT !.fs[d] = acc.fs[s]]

\* os.symlink(linkto, dstname)
symlink(acc, linkto, dstname) ==
    IF lexists(acc.fs, dstname) THEN [acc EXCEPT !.exc = "FileExistsError"]
    ELSE IF ~isdir(acc.fs, Parent(dstname))
    THEN [acc EXCEPT !.exc = "FileNotFoundError"]
    ELSE [acc EXCEPT !.fs[dstname] = LinkEntry(linkto)]

\* copy_arch_file(conanfile, src, dst, top, archs); toolOk: lipo exits with zero
copy_arch_file(acc, src, dst, top, archs_, toolOk) ==
    IF ~isfile(acc.fs, src) THEN acc
    ELSE IF /\ top # <<>>
            /\ archs_ # <<>>
            /\ is_macho_binary_raises(acc.fs, src) # "none"
    THEN [acc EXCEPT !.exc = is_macho_binary_raises(acc.fs, src)]
    ELSE IF /\ top # <<>>
            /\ archs_ # <<>>
            /\ is_macho_binary(acc.fs, src)
            /\ IsPrefix(top, src)
            /\ EnoughInputs(ArchPaths(acc.fs, src, top, archs_))
    THEN LET arch_paths == ArchPaths(acc.fs, src, top, archs_)
             call == [output |-> dst, inputs |-> arch_paths,
                      status |-> IF toolOk THEN 0 ELSE 1]
         IN IF toolOk
            THEN [acc EXCEPT !.fs[dst] = LipoOutput(acc.fs, arch_paths),
                             !.lipo = Append(acc.lipo, call)]
            ELSE [acc EXCEPT !.lipo = Append(acc.lipo, call),
                             !.exc = "ConanException"]
    ELSE IF exists(acc.fs, dst) THEN acc
    ELSE copy2(acc, src, dst)

\* the copy_function argument of graft_tree: shutil.copy2 by default (no top),
\* the lambda of line 281 when multi_package supplies top and archs
copy_function(acc, src, dst, top, archs_, toolOk) ==
    IF top = <<>> THEN copy2(acc, src, dst)
    ELSE copy_arch_file(acc, src, dst, top, archs_, toolOk)

\* str(why) of line 111: the text of the exception; for the shutil.Error of a
\* nested graft_tree the text of its whole list of errors
StrWhy(r) ==
    [exc |-> r.exc, text |-> IF r.exc = "shutil.Error" THEN r.errors ELSE <<>>]

\* SkipExisting without the test: every entry of the source is copied
SkipExisting_Never(f, dstname) == FALSE

\* the test of line 99: an entry that exists at the destination is skipped
SkipExisting(f, dstname) == exists(f, dstname)

\* which exceptions the clause "except OSError" of graft_tree catches
IsOSError(exc) ==
    exc \in {"shutil.Error", "FileNotFoundError", "FileExistsError", "PermissionError"}

\* shutil.copystat(src, dst) of line 117: the exception it raises, "none" when
\* the mode, the times and the flags of src could be set on dst
copystat(f, src, dst) ==
    IF f[src] = FlaggedDir THEN "PermissionError" ELSE "none"

\* lines 118-121 where the build runs (macOS, a POSIX system): an OSError has no
\* attribute winerror there, so reading why.winerror raises AttributeError
WinErrorTest(why) == "AttributeError"

RECURSIVE graft_tree(_, _, _, _, _, _, _)
RECURSIVE GraftNames(_, _, _, _, _, _, _, _)

\* the loop of lines 96-115 over the names that are left
GraftNames(acc, names, src, dst, symlinks, top, archs_, toolOk) ==
    IF names = <<>> \/ acc.exc # "none" THEN acc
    ELSE
      LET srcname == src \o <<Head(names)>>
          dstname == dst \o <<Head(names)>>
          r == IF symlinks /\ islink(acc.fs, srcname)
               THEN symlink(acc, readlink(acc.fs, srcname), dstname)
               ELSE IF isdir(acc.fs, srcname)
               THEN graft_tree([acc EXCEPT !.errors = <<>>], srcname, dstname,
                               symlinks, top, archs_, toolOk)
               ELSE copy_function(acc, srcname, dstname, top, archs_, toolOk)
          next ==
            IF SkipExisting(acc.fs, dstname) THEN acc
            ELSE IF r.exc = "none" THEN [r EXCEPT !.errors = acc.errors]
            ELSE IF IsOSError(r.exc)
            THEN [r EXCEPT !.exc = "none",
                           !.errors = Append(acc.errors,
                                             <<srcname, dstname, StrWhy(r)>>)]
            \* any other exception reaches "except Error", a name that is not
            \* defined: evaluating it raises NameError
            ELSE [r EXCEPT !.errors = acc.errors, !.exc = "NameError"]
      IN GraftNames(next, Tail(names), src, dst, symlinks, top, archs_, toolOk)

\* graft_tree(src, dst, symlinks, copy_function, dirs_exist_ok=True)
graft_tree(acc, src, dst, symlinks, top, archs_, toolOk) ==
    IF ~isdir(acc.fs, src) THEN [acc EXCEPT !.exc = "FileNotFoundError"]
    ELSE IF lexists(acc.fs, dst) /\ ~isdir(acc.fs, dst)
    THEN [acc EXCEPT !.exc = "FileExistsError"]
    ELSE
      LET names == listdir(acc.fs, src)
          made == IF isdir(acc.fs, dst) THEN [acc EXCEPT !.errors = <<>>]
                  ELSE [acc EXCEPT !.fs[dst] = DirEntry, !.errors = <<>>]
          r == GraftNames(made, names, src, dst, symlinks, top, archs_, toolOk)
      IN IF r.exc # "none" THEN r
         ELSE IF copystat(r.fs, src, dst) # "none"
         THEN [r EXCEPT !.exc = WinErrorTest(copystat(r.fs, src, dst))]
         ELSE IF r.errors # <<>> THEN [r EXCEPT !.exc = "shutil.Error"]
         ELSE r

---------------------------------------------------------------------------
(* Build contexts and their clones *)

HostCopy == [impl |-> "self.copy", excludes |-> {}, dst |-> PackageFolder]

BaseRecipe ==
    [s_multi_arch |-> Unset, multi_arch |-> Unset, generators |-> {},
     s_multi_arch_generators |-> {Unset}, cmake_generator |-> "Unix Makefiles",
     multi_build |-> Unset, multi_package |-> Unset, multi_test |-> Unset]

\* the recipes the configurations are drawn from
Recipes ==
    {BaseRecipe,
     [BaseRecipe EXCEPT !.multi_arch = "True"],
     [BaseRecipe EXCEPT !.s_multi_arch = "False", !.multi_arch = "True"],
     [BaseRecipe EXCEPT !.generators = {"cmake"}],
     [BaseRecipe EXCEPT !.generators = {"cmake"}, !.cmake_generator = "Xcode"],
     [BaseRecipe EXCEPT !.multi_build = RecipeMultiBuild],
     [BaseRecipe EXCEPT !.multi_build = RecipeMultiBuild,
                        !.multi_package = RecipeMultiPackage]}

\* the context the host constructs from a recipe
NewContext(h, r) ==
    [header_only |-> h,
     s_multi_arch |-> r.s_multi_arch, multi_arch |-> r.multi_arch,
     generators |-> r.generators,
     s_multi_arch_generators |-> r.s_multi_arch_generators,
     cmake_generator |-> r.cmake_generator,
     multi_build |-> r.multi_build, multi_package |-> r.multi_package,
     multi_test |-> r.multi_test,
     build |-> OrigBuild, package |-> OrigPackage, test |-> OrigTest,
     _build1 |-> Unset, _package1 |-> Unset, _test1 |-> Unset,
     copy |-> HostCopy, display_name |-> <<"pkg">>,
     settings |-> 1, folders |-> 1]

\* CopySettings as copy.copy alone leaves it: the clone shares the settings
CopySettings_Shared(c, S) == [ref |-> c.settings, heap |-> S]

\* result.settings = conanfile.settings.copy(): a settings object of its own
CopySettings(c, S) == [ref |-> Len(S) + 1, heap |-> Append(S, S[c.settings])]

\* result.folders = copy.deepcopy(conanfile.folders): a folders object of its own
CopyFolders(c, F) == [ref |-> Len(F) + 1, heap |-> Append(F, F[c.folders])]

\* conanfile_copy(conanfile): the clone and the heaps after it
conanfile_copy(c, S, F) ==
    LET s == CopySettings(c, S)
        f == CopyFolders(c, F)
    IN [ctx |-> [c EXCEPT !._build1 = OrigBuild,
                          !._package1 = OrigPackage,
                          !._test1 = OrigTest,
                          !.settings = s.ref,
                          !.folders = f.ref],
        S |-> s.heap, F |-> f.heap]

\* IsMulti with the comparison off by one: a list of one is multiplied
IsMulti_AtLeastOne(list) == Len(list) >= 1

\* the test of lines 200, 230 and 259: several architectures
IsMulti(list) == Len(list) > 1

\* the architectures the loop of a multi_* step visits, in order
LoopArchs(list) == list

\* ArchClone with the package folder joined without the architecture: every
\* clone packages into the scratch root
ArchClone_NoArchDir(c, S, F, fr, arch) ==
    LET cp == conanfile_copy(c, S, F)
        k == cp.ctx
        bf == fr.build_folder \o <<_arch_folder, arch>>
    IN [ctx |-> [k EXCEPT !.display_name = c.display_name \o <<arch>>],
        S |-> [cp.S EXCEPT ![k.settings].arch = arch,
                           ![k.settings].fat_arch = NoneVal],
        F |-> [cp.F EXCEPT ![k.folders].build = bf,
                           ![k.folders].install = bf,
                           ![k.folders].package =
                               fr.package_folder \o <<_arch_folder>>]]

\* lines 210-216, 235-242, 264-270: the clone of one architecture, renamed,
\* bound to the architecture and moved to its scratch directories
ArchClone(c, S, F, fr, arch) ==
    LET cp == conanfile_copy(c, S, F)
        k == cp.ctx
        bf == fr.build_folder \o <<_arch_folder, arch>>
        F1 == [cp.F EXCEPT ![k.folders].build = bf]
        F2 == [F1 EXCEPT ![k.folders].install = F1[k.folders].build]
    IN [ctx |-> [k EXCEPT !.display_name = c.display_name \o <<arch>>],
        S |-> [cp.S EXCEPT ![k.settings].arch = arch,
                           ![k.settings].fat_arch = NoneVal],
        F |-> [F2 EXCEPT ![k.folders].package =
                              fr.package_folder \o <<_arch_folder, arch>>]]

\* one invocation of a step implementation, as the log keeps it
NoOutput == [files |-> {}, tool |-> ScriptBytes]

CallOf(step, who, impl, c, S, F, cwd, out) ==
    [step |-> step, who |-> who, impl |-> impl,
     arch |-> S[c.settings].arch, fat_arch |-> S[c.settings].fat_arch,
     build_folder |-> F[c.folders].build,
     install_folder |-> F[c.folders].install,
     package_folder |-> F[c.folders].package,
     display_name |-> c.display_name, copy |-> c.copy, cwd |-> cwd,
     out |-> out]

Finish(op, mode, err) == [op |-> op, mode |-> mode, err |-> err]

NoFrame == [archs |-> <<>>, build_folder |-> <<>>, package_folder |-> <<>>]

EnterFrame(list, fo) ==
    [archs |-> LoopArchs(list), build_folder |-> fo.build,
     package_folder |-> fo.package]

---------------------------------------------------------------------------
(* The build directory *)

NoStage == [present |-> FALSE, names |-> {}, built |-> FALSE]

\* ignore_archs that ignores nothing
ignore_archs_Nothing(path, files, build_folder) == {}

\* ignore_archs(path, files) of multi_build
ignore_archs(path, files, build_folder) ==
    IF path = build_folder
    THEN IF _arch_folder \in files THEN {_arch_folder} ELSE {}
    ELSE {}

\* shutil.copytree(build_folder, dst, ignore=ignore_archs): the staged subtree
copytree(names, build_folder) ==
    [present |-> TRUE,
     names |-> names \ ignore_archs(build_folder, names, build_folder),
     built |-> FALSE]

---------------------------------------------------------------------------
(* What the recipe's own package step writes *)

\* the outputs drawn: any part of the library, and the tool (a Mach-O
\* executable or a script, neither with an extension) on top of all of it
PackageOutputs ==
    {o \in [files : SUBSET RelFiles, tool : {MachOThin, ScriptBytes}] :
        IF <<"tool">> \in o.files THEN o.files = RelFiles
        ELSE o.tool = ScriptBytes}

FileFor(rel, o, arch) ==
    CASE rel = <<"lib", "libfoo.a">> -> FileEntry(<<arch>>, ArMagic)
      [] rel = <<"lib", "foo.h">> -> FileEntry(<<arch>>, HeaderBytes)
      [] OTHER -> FileEntry(<<arch>>, o.tool)

\* the files of o copied under root, the directories they need created
WriteTree(f, root, o, arch) ==
    [p \in DOMAIN f |->
        IF \E rel \in o.files : p = root \o rel
        THEN FileFor(SubSeq(p, Len(root) + 1, Len(p)), o, arch)
        ELSE IF /\ f[p].kind # "file"
                /\ \E rel \in o.files : IsPrefix(p, root \o rel)
        THEN DirEntry
        ELSE f[p]]

---------------------------------------------------------------------------
(* Initial states *)

FatArchValues ==
    {StrVal(JoinSemi(SubSeq(ArchNames, 1, n))) : n \in 1..MaxArchs}

\* the settings of a configuration; fat_arch is a sub-setting of the Apple
\* operating systems only
SettingsValues ==
    {st \in [os : {Unset, "Linux", "Macos"}, arch : {Unset, "x86_64"},
             fat_arch : FatArchValues \cup {AbsentVal}] :
        ~is_apple_os(st.os) => st.fat_arch = AbsentVal}

\* the configurations: every recipe with every architecture list, and every
\* value of the other axes with the plain recipe
Configurations ==
    {cf \in [header_only : {Unset, "True", "False"}, recipe : Recipes,
             settings : SettingsValues] :
        \/ cf.recipe = BaseRecipe
        \/ cf.header_only = Unset /\ cf.settings.os = "Macos"
             /\ cf.settings.arch # Unset}

EmptyFs == [p \in FsPaths |-> IF p = PackageFolder THEN DirEntry ELSE NoEntry]

InitWith(c, st) ==
    /\ self_ = c
    /\ settingsObj = <<st>>
    /\ foldersObj = <<[build |-> BuildFolder, install |-> InstallFolder,
                       package |-> PackageFolder]>>
    /\ clones = <<>>
    /\ fs = EmptyFs
    /\ buildDir = {"conanbuildinfo.txt"}
    /\ buildArch = [a \in ArchSet |-> NoStage]
    /\ pc = "idle"
    /\ frame = NoFrame
    /\ idx = 0
    /\ calls = <<>>
    /\ lipo = <<>>
    /\ last = Finish("init", "none", "none")
    /\ done = {}

Init ==
    \E cf \in Configurations :
        InitWith(NewContext(cf.header_only, cf.recipe), cf.settings)

---------------------------------------------------------------------------
(* The hooks *)

Hook(op) ==
    /\ pc = "idle"
    /\ last.err = "none"
    /\ LET r == patch_conanfile(self_, settingsObj[self_.settings])
       IN /\ self_' = r.ctx
          /\ last' = Finish(op, IF r.ctx = self_ THEN "unchanged" ELSE "installed",
                            r.err)
    /\ UNCHANGED <<settingsObj, foldersObj, clones, fs, buildDir, buildArch,
                   pc, frame, idx, calls, lipo, done>>

pre_build == Hook("pre_build")

pre_package == Hook("pre_package")

---------------------------------------------------------------------------
(* The steps.  The host calls conanfile.build(), conanfile.package() and   *)
(* conanfile.test(), each at most once, and stops at the first error.      *)

HostCalls(step) ==
    /\ pc = "idle"
    /\ last.err = "none"
    /\ step \notin done
    /\ done' = done \cup {step}
    /\ clones' = <<>>
    /\ settingsObj' = <<settingsObj[self_.settings]>>
    /\ foldersObj' = <<foldersObj[self_.folders]>>
    /\ lipo' = <<>>

\* the step ends: with the next architecture, or by returning
Advance(op, after) ==
    IF idx < Len(frame.archs)
    THEN /\ idx' = idx + 1
         /\ UNCHANGED <<pc, frame, last>>
    ELSE /\ pc' = after
         /\ idx' = IF after = "idle" THEN 0 ELSE 1
         /\ last' = IF after = "idle" THEN Finish(op, "multi", "none") ELSE last
         /\ frame' = IF after = "idle" THEN NoFrame ELSE frame

\* Raise that records the error and goes on with the next architecture
Raise_Continue(op, err) ==
    /\ last' = Finish(op, "multi", err)
    /\ IF idx < Len(frame.archs)
       THEN idx' = idx + 1 /\ UNCHANGED <<pc, frame>>
       ELSE pc' = "idle" /\ idx' = 0 /\ frame' = NoFrame

\* the step ends by raising err
Raise(op, err) ==
    /\ pc' = "idle"
    /\ idx' = 0
    /\ frame' = NoFrame
    /\ last' = Finish(op, "multi", err)

\* conanfile.build(): the recipe's build, or multi_build(self_)
Build ==
    /\ HostCalls("build")
    /\ UNCHANGED <<self_, fs, buildArch>>
    /\ \E ok \in BOOLEAN :
        LET st == settingsObj[self_.settings]
            fo == foldersObj[self_.folders]
            multi == self_.build = HookMultiBuild
            a == get_archs(st)
        IN IF multi /\ a.kind = "None"
           THEN /\ pc' = "idle"
                /\ last' = Finish("build", "multi", "TypeError")
                /\ calls' = <<>>
                /\ UNCHANGED <<frame, idx, buildDir>>
           ELSE IF multi /\ IsMulti(a.list)
           THEN /\ pc' = "multi_build"
                /\ idx' = 1
                /\ frame' = EnterFrame(a.list, fo)
                /\ calls' = <<>>
                /\ UNCHANGED <<last, buildDir>>
           ELSE LET impl == IF multi THEN self_._build1 ELSE self_.build
                    mode == IF multi THEN "pass" ELSE "direct"
                IN /\ calls' = <<CallOf("build", 0, impl, self_, settingsObj,
                                        foldersObj, fo.build, NoOutput)>>
                   /\ buildDir' = IF ok THEN buildDir \cup {"out.o"} ELSE buildDir
                   /\ last' = Finish("build", mode,
                                     IF ok THEN "none" ELSE "StepFailed")
                   /\ pc' = "idle"
                   /\ UNCHANGED <<frame, idx>>

\* one turn of the loop of multi_build (lines 209-224)
MultiBuildArch ==
    /\ pc = "multi_build"
    /\ UNCHANGED <<self_, fs, lipo, done>>
    /\ \E ok \in BOOLEAN :
        LET arch == frame.archs[idx]
            k == ArchClone(self_, settingsObj, foldersObj, frame, arch)
            dst == k.F[k.ctx.folders].build
        IN /\ clones' = Append(clones, k.ctx)
           /\ settingsObj' = k.S
           /\ foldersObj' = k.F
           /\ IF buildArch[arch].present
              THEN \* shutil.copytree: the destination exists
                   /\ Raise("build", "FileExistsError")
                   /\ UNCHANGED <<buildDir, buildArch, calls>>
              ELSE /\ buildDir' = buildDir \cup {_arch_folder}
                   /\ buildArch' =
                        [buildArch EXCEPT ![arch] =
                            [copytree(buildDir, frame.build_folder)
                                EXCEPT !.built = ok]]
                   /\ calls' = Append(calls,
                        CallOf("build", idx, k.ctx._build1, k.ctx, k.S, k.F, dst,
                               NoOutput))
                   /\ IF ok THEN Advance("build", "idle")
                      ELSE Raise("build", "StepFailed")

\* conanfile.test(): the recipe's test, or multi_test(self_)
Test ==
    /\ HostCalls("test")
    /\ UNCHANGED <<self_, fs, buildDir, buildArch>>
    /\ \E ok \in BOOLEAN :
        LET st == settingsObj[self_.settings]
            fo == foldersObj[self_.folders]
            multi == self_.test = HookMultiTest
            a == get_archs(st)
        IN IF multi /\ a.kind = "None"
           THEN /\ pc' = "idle"
                /\ last' = Finish("test", "multi", "TypeError")
                /\ calls' = <<>>
                /\ UNCHANGED <<frame, idx>>
           ELSE IF multi /\ IsMulti(a.list)
           THEN /\ pc' = "multi_test"
                /\ idx' = 1
                /\ frame' = EnterFrame(a.list, fo)
                /\ calls' = <<>>
                /\ UNCHANGED last
           ELSE LET impl == IF multi THEN self_._test1 ELSE self_.test
                    mode == IF multi THEN "pass" ELSE "direct"
                IN /\ calls' = <<CallOf("test", 0, impl, self_, settingsObj,
                                        foldersObj, fo.build, NoOutput)>>
                   /\ last' = Finish("test", mode,
                                     IF ok THEN "none" ELSE "StepFailed")
                   /\ pc' = "idle"
                   /\ UNCHANGED <<frame, idx>>

\* one turn of the loop of multi_test (lines 234-244)
MultiTestArch ==
    /\ pc = "multi_test"
    /\ UNCHANGED <<self_, fs, lipo, done, buildDir, buildArch>>
    /\ \E ok \in BOOLEAN :
        LET arch == frame.archs[idx]
            k == ArchClone(self_, settingsObj, foldersObj, frame, arch)
            dst == k.F[k.ctx.folders].build
        IN /\ clones' = Append(clones, k.ctx)
           /\ settingsObj' = k.S
           /\ foldersObj' = k.F
           /\ IF ~buildArch[arch].present
              THEN \* tools.chdir: no such directory
                   /\ Raise("test", "FileNotFoundError")
                   /\ UNCHANGED calls
              ELSE /\ calls' = Append(calls,
                        CallOf("test", idx, k.ctx._test1, k.ctx, k.S, k.F, dst,
                               NoOutput))
                   /\ IF ok THEN Advance("test", "idle")
                      ELSE Raise("test", "StepFailed")

\* SafeCopy that adds no exclusion
SafeCopy_Plain(copy) == copy

\* the wrapper safe_package puts around self_.copy
SafeCopy(copy) == [copy EXCEPT !.excludes = @ \cup {"*Objects-normal"}]

\* conanfile.package(): the recipe's package, safe_package(self_) or
\* multi_package(self_)
Package ==
    /\ HostCalls("package")
    /\ UNCHANGED <<buildDir, buildArch>>
    /\ \E ok \in BOOLEAN, o \in PackageOutputs :
        LET st == settingsObj[self_.settings]
            fo == foldersObj[self_.folders]
            multi == self_.package = HookMultiPackage
            safe == self_.package = HookSafePackage
            a == get_archs(st)
        IN IF multi /\ a.kind = "None"
           THEN /\ pc' = "idle"
                /\ last' = Finish("package", "multi", "TypeError")
                /\ calls' = <<>>
                /\ UNCHANGED <<self_, fs, frame, idx>>
           ELSE IF multi /\ IsMulti(a.list)
           THEN /\ pc' = "multi_package"
                /\ idx' = 1
                /\ frame' = EnterFrame(a.list, fo)
                /\ calls' = <<>>
                /\ UNCHANGED <<self_, fs, last>>
           ELSE LET impl == IF multi \/ safe THEN self_._package1 ELSE self_.package
                    mode == IF multi THEN "pass" ELSE IF safe THEN "safe" ELSE "direct"
                    c == IF safe THEN [self_ EXCEPT !.copy = SafeCopy(self_.copy)]
                         ELSE self_
                IN /\ self_' = c
                   /\ calls' = <<CallOf("package", 0, impl, c, settingsObj,
                                        foldersObj, fo.build,
                                        IF ok THEN o ELSE NoOutput)>>
                   /\ fs' = IF ok THEN WriteTree(fs, fo.package, o, st.arch) ELSE fs
                   /\ last' = Finish("package", mode,
                                     IF ok THEN "none" ELSE "StepFailed")
                   /\ pc' = "idle"
                   /\ UNCHANGED <<frame, idx>>

\* one turn of the first loop of multi_package (lines 263-276)
MultiPackageArch ==
    /\ pc = "multi_package"
    /\ UNCHANGED <<self_, lipo, done, buildDir, buildArch>>
    /\ \E ok \in BOOLEAN, o \in PackageOutputs :
        LET arch == frame.archs[idx]
            k == ArchClone(self_, settingsObj, foldersObj, frame, arch)
            dst == k.F[k.ctx.folders].build
            pkg == k.F[k.ctx.folders].package
            c == [k.ctx EXCEPT !.copy = [impl |-> "FileCopier", excludes |-> {},
                                         dst |-> pkg]]
        IN /\ clones' = Append(clones, c)
           /\ settingsObj' = k.S
           /\ foldersObj' = k.F
           /\ IF ~buildArch[arch].present
              THEN \* tools.chdir: no such directory
                   /\ Raise("package", "FileNotFoundError")
                   /\ UNCHANGED <<calls, fs>>
              ELSE /\ calls' = Append(calls,
                        CallOf("package", idx, c._package1, c, k.S, k.F, dst,
                               IF ok THEN o ELSE NoOutput))
                   /\ IF ok
                      THEN /\ fs' = WriteTree(fs, pkg, o, k.S[c.settings].arch)
                           /\ Advance("package", "merge")
                      ELSE /\ fs' = fs
                           /\ Raise("package", "StepFailed")

\* one turn of the second loop of multi_package (lines 277-282)
MergeArch ==
    /\ pc = "merge"
    /\ UNCHANGED <<self_, settingsObj, foldersObj, clones, done, buildDir,
                   buildArch, calls>>
    /\ \E toolOk \in BOOLEAN :
        LET arch == frame.archs[idx]
            r == graft_tree(MergeState(fs, lipo),
                            frame.package_folder \o <<_arch_folder, arch>>,
                            frame.package_folder, TRUE,
                            frame.package_folder, frame.archs, toolOk)
        IN /\ fs' = r.fs
           /\ lipo' = r.lipo
           /\ IF r.exc # "none" THEN Raise("package", r.exc)
              ELSE Advance("package", "rmtree")

\* line 283: the scratch root under the package folder is removed
RemoveScratch ==
    /\ pc = "rmtree"
    /\ UNCHANGED <<self_, settingsObj, foldersObj, clones, done, buildDir,
                   buildArch, calls, lipo>>
    /\ LET root == foldersObj[self_.folders].package \o <<_arch_folder>>
       IN IF ~exists(fs, root)
          THEN /\ fs' = fs
               /\ Raise("package", "FileNotFoundError")
          ELSE /\ fs' = rmtree(fs, root)
               /\ pc' = "idle"
               /\ idx' = 0
               /\ frame' = NoFrame
               /\ last' = Finish("package", "multi", "none")

Next ==
    \/ pre_build
    \/ pre_package
    \/ Build
    \/ MultiBuildArch
    \/ Package
    \/ MultiPackageArch
    \/ MergeArch
    \/ RemoveScratch
    \/ Test
    \/ MultiTestArch

Spec == Init /\ [][Next]_vars

\* The step functions applied to any context that carries the saved steps:
\* multi_build, multi_package and multi_test take the context as their
\* argument and resolve its architecture list themselves.
InitDriver ==
    \E fa \in FatArchValues \cup {NoneVal} :
        InitWith(InstallMulti(NewContext(Unset, BaseRecipe)),
                 [os |-> "Macos", arch |-> "x86_64", fat_arch |-> fa])

SpecDriver == InitDriver /\ [][Next]_vars

---------------------------------------------------------------------------
(* The classifier alone: is_macho_binary applied to one file *)

\* the names drawn: a binary extension, a plain extension, no extension
ClassifyNames == {"libfoo.a", "foo.h", "tool"}

\* the contents drawn: every leading part of the three signatures followed by
\* more bytes, and of two contents that carry no signature
ClassifyBytes ==
    UNION {{SubSeq(b, 1, n) : n \in 0..Len(b)} :
              b \in {MachOThin \o <<7, 0>>, MachOFat \o <<0, 0>>,
                     ArMagic \o <<47>>, ScriptBytes, HeaderBytes}}

InitClassify ==
    /\ \E name \in ClassifyNames, bytes \in ClassifyBytes, readable \in BOOLEAN :
          fs = [p \in {<<name>>} |->
                  IF readable THEN FileEntry(<<>>, bytes)
                  ELSE Unreadable(FileEntry(<<>>, bytes))]
    /\ self_ = NewContext(Unset, BaseRecipe)
    /\ settingsObj = <<[os |-> "Macos", arch |-> "x86_64", fat_arch |-> AbsentVal]>>
    /\ foldersObj = <<[build |-> BuildFolder, install |-> InstallFolder,
                       package |-> PackageFolder]>>
    /\ clones = <<>>
    /\ buildDir = {}
    /\ buildArch = [a \in ArchSet |-> NoStage]
    /\ pc = "classify"
    /\ frame = NoFrame
    /\ idx = 0
    /\ calls = <<>>
    /\ lipo = <<>>
    /\ last = Finish("init", "none", "none")
    /\ done = {}

\* one call of is_macho_binary: the verdict, or the exception that leaves it
Classify ==
    /\ pc = "classify"
    /\ pc' = "classified"
    /\ \E filename \in DOMAIN fs :
          LET exc == is_macho_binary_raises(fs, filename)
              verdict == IF exc # "none" THEN "raised"
                         ELSE IF is_macho_binary(fs, filename) THEN "binary"
                         ELSE "plain"
          IN last' = Finish("is_macho_binary", verdict, exc)
    /\ UNCHANGED <<self_, settingsObj, foldersObj, clones, fs, buildDir,
                   buildArch, frame, idx, calls, lipo, done>>

NextClassify == Classify

SpecClassify == InitClassify /\ [][NextClassify]_vars

---------------------------------------------------------------------------
(* The tree merger alone: graft_tree(src, dst, symlinks, dirs_exist_ok=True) *)
(* with the default copy function, called twice with the same arguments     *)

GraftSrc == <<"src">>
GraftDst == <<"dst">>
\* the target of a link that no tree holds
Missing == <<"missing">>

GraftPaths ==
    {GraftSrc, GraftDst}
    \cup {root \o p : root \in {GraftSrc, GraftDst}, p \in RelPaths \cup {Missing}}

SrcFile == FileEntry(<<"src">>, ScriptBytes)
DstFile == FileEntry(<<"dst">>, HeaderBytes)

\* the source trees drawn: lib absent or a directory, with flags or without,
\* holding any of two files, readable or not, and tool absent, a file, or a link whose target is in no
\* tree or is lib/foo.h
SrcTrees ==
    {t \in [lib : {NoEntry, DirEntry, FlaggedDir},
            a : {NoEntry, SrcFile, Unreadable(SrcFile)},
            h : {NoEntry, SrcFile, Unreadable(SrcFile)},
            tool : {NoEntry, SrcFile, Unreadable(SrcFile),
                    LinkEntry(Missing), LinkEntry(<<"lib", "foo.h">>)}] :
        t.lib = NoEntry => t.a = NoEntry /\ t.h = NoEntry}

\* the destination trees drawn: absent, or a directory in which lib is absent,
\* a file or a directory holding any of two files, and tool is absent, a file
\* or a link
DstTrees ==
    {t \in [root : {NoEntry, DirEntry},
            lib : {NoEntry, DirEntry, DstFile},
            a : {NoEntry, DstFile},
            h : {NoEntry, DstFile},
            tool : {NoEntry, DstFile, LinkEntry(Missing),
                    LinkEntry(<<"lib", "foo.h">>)}] :
        /\ t.root = NoEntry => t.lib = NoEntry /\ t.tool = NoEntry
        /\ t.lib # DirEntry => t.a = NoEntry /\ t.h = NoEntry}

TreeAt(root, rootEntry, t) ==
    [p \in {root \o q : q \in RelPaths \cup {Missing, <<>>}} |->
        CASE p = root -> rootEntry
          [] p = root \o <<"lib">> -> t.lib
          [] p = root \o <<"lib", "libfoo.a">> -> t.a
          [] p = root \o <<"lib", "foo.h">> -> t.h
          [] p = root \o <<"tool">> -> t.tool
          [] OTHER -> NoEntry]

InitGraft ==
    /\ \E s \in SrcTrees, d \in DstTrees :
          fs = [p \in GraftPaths |->
                  IF IsPrefix(GraftSrc, p) THEN TreeAt(GraftSrc, DirEntry, s)[p]
                  ELSE TreeAt(GraftDst, d.root, d)[p]]
    /\ self_ = NewContext(Unset, BaseRecipe)
    /\ settingsObj = <<[os |-> "Macos", arch |-> "x86_64", fat_arch |-> AbsentVal]>>
    /\ foldersObj = <<[build |-> BuildFolder, install |-> InstallFolder,
                       package |-> PackageFolder]>>
    /\ clones = <<>>
    /\ buildDir = {}
    /\ buildArch = [a \in ArchSet |-> NoStage]
    /\ pc = "graft"
    /\ frame = NoFrame
    /\ idx = 0
    /\ calls = <<>>
    /\ lipo = <<>>
    /\ last = Finish("init", "none", "none")
    /\ done = {}

\* one call of graft_tree(GraftSrc, GraftDst, symlinks, dirs_exist_ok=True); the
\* log keeps the arguments, the trees before and after, and what was raised
Graft ==
    /\ pc = "graft"
    /\ idx < 2
    /\ idx' = idx + 1
    /\ \E symlinks \in BOOLEAN :
          /\ calls # <<>> => symlinks = calls[1].symlinks
          /\ LET r == graft_tree(MergeState(fs, <<>>), GraftSrc, GraftDst,
                                 symlinks, <<>>, <<>>, TRUE)
             IN /\ fs' = r.fs
                /\ last' = Finish("graft_tree", "call", r.exc)
                /\ calls' = Append(calls, [step |-> "graft_tree",
                                           symlinks |-> symlinks,
                                           before |-> fs, after |-> r.fs,
                                           exc |-> r.exc, errors |-> r.errors])
    /\ UNCHANGED <<self_, settingsObj, foldersObj, clones, buildDir, buildArch,
                   pc, frame, lipo, done>>

NextGraft == Graft

SpecGraft == InitGraft /\ [][NextGraft]_vars

---------------------------------------------------------------------------
(* Properties *)

OrigSettings == settingsObj[self_.settings]
OrigFolders == foldersObj[self_.folders]
Resolved == get_archs(OrigSettings)
Steps == {"build", "package", "test"}
HookImpls == {HookMultiBuild, HookMultiPackage, HookMultiTest, HookSafePackage}
OrigImpl(step) ==
    CASE step = "build" -> OrigBuild
      [] step = "package" -> OrigPackage
      [] OTHER -> OrigTest

\* a multi-architecture step has returned without an error
StepDone(step) == pc = "idle" /\ last = Finish(step, "multi", "none")

\* the loop of the step is running, or has ended and the step has not returned
Looping(step) ==
    \/ pc = "multi_build" /\ step = "build"
    \/ pc = "multi_test" /\ step = "test"
    \/ pc = "multi_package" /\ step = "package"
AfterLoop(step) == step = "package" /\ pc \in {"merge", "rmtree"}

\* the i-th invocation is the original step, on the clone of the i-th
\* architecture, in that architecture's scratch directories
ScratchCall(step, i) ==
    LET arch == Resolved.list[i]
    IN /\ calls[i].step = step
       /\ calls[i].who = i
       /\ calls[i].impl = OrigImpl(step)
       /\ calls[i].arch = arch
       /\ calls[i].build_folder = <<"build", "conan_archs", arch>>
       /\ calls[i].package_folder = <<"package", "conan_archs", arch>>
       /\ calls[i].cwd = calls[i].build_folder

\* C1: with N > 1 resolved architectures, each of multi_build, multi_package and
\* multi_test invokes the original step once per architecture, one after the
\* other in resolution order, the i-th on a clone whose build and package
\* folders are <build>/conan_archs/<arch_i> and <package>/conan_archs/<arch_i>,
\* and no two architectures share a scratch directory.
C1_OncePerArch ==
    \A step \in Steps :
        /\ Looping(step) =>
              /\ Len(calls) = idx - 1
              /\ \A i \in 1..Len(calls) : ScratchCall(step, i)
        /\ (AfterLoop(step) \/ StepDone(step)) =>
              /\ Len(Resolved.list) > 1
              /\ Len(calls) = Len(Resolved.list)
              /\ \A i \in 1..Len(calls) : ScratchCall(step, i)
              /\ \A i, j \in 1..Len(calls) :
                    i # j => /\ calls[i].build_folder # calls[j].build_folder
                             /\ calls[i].package_folder # calls[j].package_folder

C1_Witness ==
    /\ StepDone("package")
    /\ Len(calls) = 3
    /\ "test" \in done

\* C2: no step changes the settings or the folders of the original context,
\* and what a step assigns on one clone changes no clone made before it.
C2_OriginalUntouched ==
    [][/\ self_'.settings = self_.settings
       /\ self_'.folders = self_.folders
       /\ settingsObj'[self_'.settings] = settingsObj[self_.settings]
       /\ foldersObj'[self_'.folders] = foldersObj[self_.folders]
       /\ Len(clones') >= Len(clones) =>
            \A k \in 1..Len(clones) :
                /\ clones'[k] = clones[k]
                /\ settingsObj'[clones'[k].settings] = settingsObj[clones[k].settings]
                /\ foldersObj'[clones'[k].folders] = foldersObj[clones[k].folders]
      ]_vars

C2_Witness ==
    /\ Len(clones) >= 2
    /\ settingsObj[clones[2].settings].arch # OrigSettings.arch
    /\ settingsObj[clones[2].settings].arch # settingsObj[clones[1].settings].arch
    /\ settingsObj[clones[2].settings].fat_arch = NoneVal
    /\ OrigSettings.fat_arch # NoneVal
    /\ foldersObj[clones[2].folders].build # OrigFolders.build
    /\ foldersObj[clones[2].folders].package # foldersObj[clones[1].folders].package

\* C3: when the resolved list has exactly one member, a step runs the original
\* step once on the original context itself: no loop is entered, no clone is
\* made, no conan_archs directory appears under the build or the package folder,
\* the tool is not run, and the package holds what the original step wrote.
C3_PassThrough ==
    (Resolved.kind = "list" /\ Len(Resolved.list) = 1) =>
        /\ pc = "idle"
        /\ clones = <<>>
        /\ Len(settingsObj) = 1 /\ Len(foldersObj) = 1
        /\ lipo = <<>>
        /\ buildDir \subseteq {"conanbuildinfo.txt", "out.o"}
        /\ \A a \in ArchSet : ~buildArch[a].present
        /\ \A p \in DOMAIN fs :
              /\ IsPrefix(<<"package", "conan_archs">>, p) => fs[p].kind = "none"
              /\ fs[p].kind = "file" => fs[p].data = <<OrigSettings.arch>>
        /\ last.op \in Steps =>
              /\ last.mode = "pass"
              /\ Len(calls) = 1
              /\ calls[1].step = last.op
              /\ calls[1].who = 0
              /\ calls[1].impl = OrigImpl(last.op)
              /\ calls[1].arch = OrigSettings.arch
              /\ calls[1].fat_arch = OrigSettings.fat_arch
              /\ calls[1].build_folder = <<"build">>
              /\ calls[1].install_folder = <<"install">>
              /\ calls[1].package_folder = <<"package">>
              /\ calls[1].copy = HostCopy
              /\ calls[1].display_name = <<"pkg">>
              /\ last = Finish("package", "pass", "none") =>
                    fs = WriteTree(EmptyFs, <<"package">>, calls[1].out,
                                   OrigSettings.arch)

C3_Witness ==
    /\ Len(Resolved.list) = 1
    /\ last = Finish("package", "pass", "none")
    /\ fs[<<"package", "tool">>].kind = "file"
    /\ done = Steps

---------------------------------------------------------------------------
(* The merge *)

PackageScratch(arch) == <<"package", "conan_archs", arch>>
Unified(rel) == <<"package">> \o rel

\* the architectures, by their place in the list, whose package step wrote rel
Holders(rel) == {i \in 1..Len(calls) : rel \in calls[i].out.files}
FirstHolder(rel) == CHOOSE i \in Holders(rel) : \A j \in Holders(rel) : i <= j

\* the file the package step of the i-th architecture wrote at rel
Written(rel, i) == FileFor(rel, calls[i].out, calls[i].arch)

\* the classifier's verdict on that file
WrittenBinary(rel, i) ==
    is_macho_binary([q \in {rel} |-> Written(rel, i)], rel)

\* the scratch files of rel, in the order of the architectures
HolderPaths(rel) ==
    LET Holds(i) == i \in Holders(rel)
        ix == SelectSeq([i \in 1..Len(calls) |-> i], Holds)
    IN [n \in 1..Len(ix) |-> PackageScratch(calls[ix[n]].arch) \o rel]

ToolRuns(rel) == {n \in 1..Len(lipo) : lipo[n].output = Unified(rel)}

\* every architecture's tree has been merged and the step has not failed
Merged == pc = "rmtree" \/ StepDone("package")

\* C4: after the merge, a path that is binary in the trees of two or more
\* architectures has been combined by exactly one run of the tool, whose inputs
\* are all the per-architecture files of the path and whose output is the
\* unified path; a binary path of one tree only is a verbatim copy, and the
\* tool was not run for it.
C4_BinaryMerged ==
    Merged =>
        \A rel \in RelFiles :
            (Holders(rel) # {} /\ \A i \in Holders(rel) : WrittenBinary(rel, i)) =>
                IF Cardinality(Holders(rel)) >= 2
                THEN /\ Cardinality(ToolRuns(rel)) = 1
                     /\ \A n \in ToolRuns(rel) : lipo[n].inputs = HolderPaths(rel)
                ELSE /\ ToolRuns(rel) = {}
                     /\ fs[Unified(rel)] = Written(rel, FirstHolder(rel))

\* C5: after a successful multi-architecture package step, every file of
\* every architecture's tree exists in the unified package root.
C5_NothingLost ==
    StepDone("package") =>
        \A rel \in RelFiles : Holders(rel) # {} => isfile(fs, Unified(rel))

\* C6: after a successful multi-architecture package step, a path that is
\* plain in the trees of several architectures is in the unified root the copy
\* of the first architecture that has it, and the tool was not run for it.
C6_FirstPlainWins ==
    StepDone("package") =>
        \A rel \in RelFiles :
            (/\ Cardinality(Holders(rel)) >= 2
             /\ \A i \in Holders(rel) : ~WrittenBinary(rel, i)) =>
                /\ fs[Unified(rel)] = Written(rel, FirstHolder(rel))
                /\ ToolRuns(rel) = {}

\* the scratch root under the package folder, and everything below it
PackageScratchPaths == {p \in FsPaths : IsPrefix(<<"package", "conan_archs">>, p)}

\* C7: after a successful multi-architecture package step nothing is left of
\* package/conan_archs; and until the last tree is merged nothing of it is
\* removed: entries below it disappear only in the step that follows the last
\* merge, and while trees are merged every merged tree is still there.
C7_ScratchRemovedLast ==
    /\ [](/\ StepDone("package") =>
               \A p \in PackageScratchPaths : fs[p].kind = "none"
          /\ pc = "merge" =>
               \A i \in 1..(idx - 1) : isdir(fs, PackageScratch(frame.archs[i]))
          /\ pc = "rmtree" =>
               \A i \in 1..Len(frame.archs) :
                   isdir(fs, PackageScratch(frame.archs[i])))
    /\ [][(\E p \in PackageScratchPaths : fs[p].kind # "none" /\ fs'[p].kind = "none")
            => pc = "rmtree" /\ pc' = "idle"]_vars

C7_Witness ==
    /\ StepDone("package")
    /\ Len(lipo) >= 2
    /\ isfile(fs, <<"package", "lib", "foo.h">>)

\* C8, as stated: after a successful multi-architecture build step and a
\* successful package step, no architecture has a scratch directory under the
\* build folder or under the package folder.
C8_BothScratchGone ==
    (StepDone("package") /\ "build" \in done) =>
        /\ \A p \in PackageScratchPaths : fs[p].kind = "none"
        /\ "conan_archs" \notin buildDir
        /\ \A a \in ArchSet : ~buildArch[a].present

\* C8, amended: after a successful multi-architecture build step and a
\* successful package step, no architecture has a scratch directory under the
\* package folder, and every architecture still has its scratch directory
\* under the build folder.
C8_PackageScratchGone ==
    (StepDone("package") /\ "build" \in done) =>
        /\ \A p \in PackageScratchPaths : fs[p].kind = "none"
        /\ "conan_archs" \in buildDir
        /\ \A i \in 1..Len(Resolved.list) : buildArch[Resolved.list[i]].present

C8_Witness ==
    /\ StepDone("package")
    /\ "build" \in done
    /\ Len(calls) = 3
    /\ buildArch["armv7"].built

---------------------------------------------------------------------------
(* The gate *)

HookStep == pre_build \/ pre_package

\* the saved steps of a context are unset or the steps of the recipe
SavedOriginals(c) ==
    /\ c._build1 \in {Unset, OrigBuild}
    /\ c._package1 \in {Unset, OrigPackage}
    /\ c._test1 \in {Unset, OrigTest}

\* C9: a hook call on a context that carries the marker changes nothing of the
\* context and raises nothing, a hook call that changes the context sets the
\* marker (so orchestration is installed at most once), the saved steps
\* _build1, _package1 and _test1 are the recipe's own steps, never a wrapper,
\* and no step that is invoked through them is a wrapper.
C9_GateIdempotent ==
    /\ [](/\ SavedOriginals(self_)
          /\ \A k \in 1..Len(clones) : SavedOriginals(clones[k])
          /\ \A i \in 1..Len(calls) : calls[i].impl \notin HookImpls)
    /\ [][HookStep =>
            IF self_._package1 # Unset
            THEN self_' = self_ /\ last'.err = "none"
            ELSE self_' # self_ => self_'._package1 # Unset]_vars

C9_Witness ==
    /\ last = Finish("pre_package", "unchanged", "none")
    /\ self_._package1 = OrigPackage
    /\ self_.package = HookMultiPackage
    /\ self_.build = HookMultiBuild
    /\ "build" \in done

\* a condition of the gate is not met
GateUnmet ==
    \/ self_.header_only = "True"
    \/ OrigSettings.os \notin {"Macos", "iOS", "watchOS", "tvOS"}
    \/ OrigSettings.arch = Unset
    \/ Resolved.kind = "list" /\ Len(Resolved.list) <= 1

\* C10: when the package is header-only, the OS is not an Apple OS or is unset,
\* there is no arch setting, or the resolved list has at most one member, the
\* hooks leave the context as it was constructed: build, package and test are
\* the recipe's steps, nothing is saved, no multi_* attribute is added, and
\* every step runs once, on the context itself, in its own folders.
C10_GateUnmetUntouched ==
    GateUnmet =>
        /\ self_.build = OrigBuild
        /\ self_.package = OrigPackage
        /\ self_.test = OrigTest
        /\ self_._build1 = Unset /\ self_._package1 = Unset /\ self_._test1 = Unset
        /\ self_.multi_build \in {Unset, RecipeMultiBuild}
        /\ self_.multi_package \in {Unset, RecipeMultiPackage}
        /\ self_.multi_test = Unset
        /\ self_.copy = HostCopy
        /\ last.op \in {"pre_build", "pre_package"} =>
              last.mode = "unchanged" /\ last.err = "none"
        /\ pc = "idle"
        /\ clones = <<>>
        /\ lipo = <<>>
        /\ \A a \in ArchSet : ~buildArch[a].present
        /\ \A p \in PackageScratchPaths : fs[p].kind = "none"
        /\ last.op \in Steps =>
              /\ last.mode = "direct"
              /\ Len(calls) = 1
              /\ calls[1].who = 0
              /\ calls[1].impl = OrigImpl(last.op)
              /\ calls[1].build_folder = <<"build">>
              /\ calls[1].package_folder = <<"package">>
              /\ calls[1].arch = OrigSettings.arch

C10_Witness ==
    /\ GateUnmet
    /\ Resolved.kind = "list"
    /\ last = Finish("pre_package", "unchanged", "none")
    /\ "build" \in done

---------------------------------------------------------------------------
(* Errors *)

\* C11: when the configuration has no fat_arch field, get_archs gives a list of
\* one architecture, a hook call leaves the context untouched and raises
\* nothing, and no step raises an error that is due to the absence.
C11_AbsentIsSingle ==
    (OrigSettings.fat_arch = AbsentVal /\ last.op # "init") =>
        /\ Resolved.kind = "list"
        /\ Len(Resolved.list) = 1
        /\ last.err \in {"none", "StepFailed"}
        /\ last.op \in {"pre_build", "pre_package"} => last.mode = "unchanged"
        /\ self_.build = OrigBuild
        /\ self_.package = OrigPackage
        /\ self_.test = OrigTest

\* C12: when the original step fails for the k-th architecture of a
\* multi-architecture step, the step has ended with that failure, the original
\* step has been invoked for the first k architectures and no other, the tool has
\* not been run, and nothing has been written into the unified package root.
C12_FirstFailureAborts ==
    (last.mode = "multi" /\ last.err = "StepFailed") =>
        /\ pc = "idle"
        /\ Len(calls) \in 1..Len(Resolved.list)
        /\ \A i \in 1..Len(calls) : ScratchCall(last.op, i)
        /\ lipo = <<>>
        /\ last.op = "package" =>
              /\ calls[Len(calls)].out = NoOutput
              /\ \A rel \in RelPaths : fs[Unified(rel)].kind = "none"
        /\ last.op = "build" => ~buildArch[calls[Len(calls)].arch].built

C12_Witness ==
    /\ last = Finish("package", "multi", "StepFailed")
    /\ Len(calls) = 2
    /\ Len(Resolved.list) = 3
    /\ isfile(fs, PackageScratch("x86_64") \o <<"lib", "libfoo.a">>)

---------------------------------------------------------------------------
(* The classifier *)

\* the file is_macho_binary was applied to
Classified == CHOOSE p \in DOMAIN fs : TRUE
ClassifiedExt == splitext(Classified[Len(Classified)])

\* the three signatures of the reference definition
Signatures == {MachOThin, MachOFat, ArMagic}
StartsWithSignature(bytes) == \E sig \in Signatures : IsPrefix(sig, bytes)

\* C13: an extension in {.a, .dylib} gives binary and a known plain extension
\* gives plain, whether or not the file can be opened; for a readable file of
\* any other extension the verdict is binary exactly when its leading bytes are
\* one of the three signatures, and plain otherwise.
C13_MatchesReference ==
    last.op = "is_macho_binary" =>
        /\ ClassifiedExt \in _binary_exts => last.mode = "binary"
        /\ ClassifiedExt \in _regular_exts => last.mode = "plain"
        /\ (/\ ClassifiedExt \notin _binary_exts \cup _regular_exts
            /\ fs[Classified].readable) =>
              last.mode = IF StartsWithSignature(fs[Classified].bytes)
                          THEN "binary" ELSE "plain"

\* C14: for a file of unrecognised extension that cannot be opened, the
\* classifier returns plain and raises nothing.
C14_UnreadableIsPlain ==
    (/\ last.op = "is_macho_binary"
     /\ ClassifiedExt \notin _binary_exts \cup _regular_exts
     /\ ~fs[Classified].readable) =>
        last.mode = "plain" /\ last.err = "none"

---------------------------------------------------------------------------
(* The failure of the tool *)

\* the runs of the tool that exited with a status other than zero
FailedRuns == {n \in 1..Len(lipo) : lipo[n].status # 0}

\* C17: when a run of the tool exits non-zero, the package step has ended, it
\* has not ended in success, and the error its caller sees is the error of
\* that run.
C17_ToolFailureSurfaces ==
    FailedRuns # {} =>
        /\ pc = "idle"
        /\ last.op = "package"
        /\ last.err # "none"
        /\ last.err = "ConanException"

---------------------------------------------------------------------------
(* The tree merger *)

\* C15: when a first call of graft_tree has returned, a second call with the
\* same arguments leaves the destination tree as the first call left it, and
\* raises nothing.
C15_GraftIdempotent ==
    (Len(calls) = 2 /\ calls[1].exc = "none") =>
        /\ calls[2].after = calls[1].after
        /\ calls[2].exc = "none"

\* C16: with the default copy function, every file of the destination tree is
\* after a call of graft_tree what it was before the call.
C16_NeverOverwrites ==
    \A n \in 1..Len(calls) :
        \A p \in GraftPaths :
            (IsPrefix(GraftDst, p) /\ calls[n].before[p].kind = "file") =>
                calls[n].after[p] = calls[n].before[p]

C16_Witness ==
    /\ Len(calls) = 1
    /\ calls[1].before[<<"dst", "tool">>] = DstFile
    /\ calls[1].before[<<"src", "tool">>] = SrcFile
    /\ calls[1].before[<<"src", "lib", "foo.h">>] = SrcFile
    /\ calls[1].before[<<"dst", "lib">>].kind = "none"
    /\ calls[1].after[<<"dst", "lib", "foo.h">>] = SrcFile

\* the entries of the source tree that the first call attempted: not a
\* directory, nothing existing at the destination under the same name, and in
\* a directory the call entered
Attempted(rel) ==
    LET t == calls[1].before
    IN /\ t[GraftSrc \o rel].kind \in {"file", "link"}
       /\ ~exists(t, GraftDst \o rel)
       /\ Len(rel) = 2 => ~exists(t, GraftDst \o <<rel[1]>>)

\* the entry is named by the error list that was raised: it is an entry of the
\* list, or it is in the text of the list's entry for the directory holding it
Reported(rel) ==
    \E i \in 1..Len(calls[1].errors) :
        LET e == calls[1].errors[i]
        IN \/ e[1] = GraftSrc \o rel
           \/ \E j \in 1..Len(e[3].text) : e[3].text[j][1] = GraftSrc \o rel

\* C18: a call of graft_tree on which I/O errors occur goes through every entry
\* of the source tree: each entry it attempts is at the destination afterwards
\* or is named by the error list, and the call raises the one aggregate error,
\* and no other, exactly when that list is not empty.
C18_AllAttemptedAllReported ==
    Len(calls) >= 1 =>
        /\ \A rel \in RelFiles :
              Attempted(rel) =>
                  lexists(calls[1].after, GraftDst \o rel) \/ Reported(rel)
        /\ calls[1].exc \in {"none", "shutil.Error"}
        /\ calls[1].exc = "shutil.Error" <=> calls[1].errors # <<>>

---------------------------------------------------------------------------
(* The light variant, and the staging of the build directory *)

\* C19: a hook call on a context that passes the gate, is not patched and
\* supports several architectures itself redirects the package step and leaves
\* build and test alone; on such a context build and test run as the recipe's
\* steps, and the package step runs the recipe's package step once on the
\* context itself, its copy excluding "*Objects-normal" besides what it excluded
\* before, with no clone, no conan_archs directory, no merge and no tool run.
C19_LightVariant ==
    /\ [](self_.package = HookSafePackage =>
            /\ self_.build = OrigBuild /\ self_.test = OrigTest
            /\ self_._build1 = Unset /\ self_._test1 = Unset
            /\ self_._package1 = OrigPackage
            /\ pc = "idle"
            /\ clones = <<>>
            /\ lipo = <<>>
            /\ _arch_folder \notin buildDir
            /\ \A a \in ArchSet : ~buildArch[a].present
            /\ \A p \in PackageScratchPaths : fs[p].kind = "none"
            /\ last.op \in Steps =>
                  /\ Len(calls) = 1
                  /\ calls[1].who = 0
                  /\ calls[1].impl = OrigImpl(last.op)
                  /\ calls[1].arch = OrigSettings.arch
                  /\ calls[1].fat_arch = OrigSettings.fat_arch
                  /\ calls[1].build_folder = <<"build">>
                  /\ calls[1].package_folder = <<"package">>
                  /\ last.mode = IF last.op = "package" THEN "safe" ELSE "direct"
            /\ last = Finish("package", "safe", "none") =>
                  /\ calls[1].copy =
                        [HostCopy EXCEPT !.excludes = {"*Objects-normal"}]
                  /\ fs = WriteTree(EmptyFs, <<"package">>, calls[1].out,
                                    OrigSettings.arch))
    /\ [][(/\ HookStep
           /\ ~GateUnmet
           /\ Resolved.kind = "list"
           /\ self_._package1 = Unset
           /\ supports_multi_arch(self_)) =>
              /\ self_'.package = HookSafePackage
              /\ self_'.build = self_.build
              /\ self_'.test = self_.test]_vars

C19_Witness ==
    /\ last = Finish("package", "safe", "none")
    /\ self_.multi_build = RecipeMultiBuild
    /\ Len(Resolved.list) = 3
    /\ "build" \in done
    /\ isfile(fs, <<"package", "lib", "libfoo.a">>)

\* C20: no staged subtree build/conan_archs/<arch> holds a conan_archs
\* directory: each is the build directory without conan_archs, whatever the
\* number of architectures staged before it.
C20_NoNestedScratch ==
    \A a \in ArchSet :
        buildArch[a].present =>
            /\ _arch_folder \notin buildArch[a].names
            /\ buildArch[a].names = buildDir \ {_arch_folder}

C20_Witness ==
    /\ pc = "multi_build"
    /\ idx = 3
    /\ _arch_folder \in buildDir
    /\ buildArch["armv8"].present
    /\ buildArch["armv8"].names # {}

====
